---- MODULE Spec2Model ----
(***************************************************************************)
(* The browser-driven verification scripts of ergogen-gui, as one state    *)
(* machine: a run of one script is the execution, statement by statement,  *)
(* of that script's calls on the browser-automation library.  The web      *)
(* application under test is the environment: every call that reaches the  *)
(* page either succeeds or raises, and every query of the page answers     *)
(* either way.                                                             *)
(*                                                                         *)
(* A script is a sequence of instructions, one per statement of the        *)
(* source, each carrying the source line it comes from.  Jump targets      *)
(* (the else of an if, the handler of a try, its finally) are source line  *)
(* numbers.                                                                *)
(***************************************************************************)
EXTENDS Integers, Sequences, FiniteSets, TLC

VARIABLES
    script,       \* the script being run
    pc,           \* the statement about to be executed (an index into the script)
    outcome,      \* "running", "completed", "returned" or "aborted"
    browser,      \* "none", "open" or "closed"
    exc,          \* the exception propagating (through a finally body, or out)
    latency,      \* how long (ms) the application takes to answer a call in this run
    clock,        \* the time (ms) since the run started
    trace,        \* the statements executed so far, each with its result
    shots,        \* the screenshot files written by this run
    initScripts,  \* the init scripts registered on the browser context
    storage,      \* the page's localStorage
    locals,       \* the script's local variables that decide a branch
    page,         \* the grid settings of the page, once a call has met them
    page0,        \* the grid settings the page had when a call first met them
    files,        \* the filesystem: for each screenshot path, the script that wrote it last
    wrote,        \* every <<script, path>> written so far
    run           \* 1 for the first script run, 2 for the one run after it

vars == <<script, pc, outcome, browser, exc, latency, clock, trace, shots,
          initScripts, storage, locals, page, page0, files, wrote, run>>

\* Longest time (ms) the application takes to answer a call of the script.
MaxLatency == 1

\* Largest coordinate value the status bar of the application shows.
MaxCoord == 2

\* Number of grid sizes the page may start with, from 1 U up in steps of 0.125 U.
MaxSize == 1

Latency == 0..MaxLatency

Coords == 0..MaxCoord

-----------------------------------------------------------------------------
(* Instructions *)

\* One statement: the source line, the call, what it is called on, its argument.
\* ms: the duration of a wait or the timeout given to the call (0: none given);
\* els: where an if goes when false, or where an else:/except: marker skips to;
\* catch: the line of the handler of the enclosing try (0: none);
\* fin: the line of the finally body of the enclosing try (0: none).
I(line, op, target, arg) ==
    [line |-> line, op |-> op, target |-> target, arg |-> arg,
     ms |-> 0, els |-> 0, catch |-> 0, fin |-> 0]

\* A call with a duration or a timeout.
W(line, op, target, ms) == [I(line, op, target, "") EXCEPT !.ms = ms]

\* if <target>.<arg>: ... ; on false go to line els.
If(line, target, arg, els) == [I(line, "if", target, arg) EXCEPT !.els = els]

\* An else: or except: line reached from the block above it: skip to line to.
Skip(line, op, to) == [I(line, op, "", "") EXCEPT !.els = to]

\* The statements of lines first..last are inside a try whose handler starts at
\* line catch and whose finally body starts at line fin.
Protect(prog, first, last, catch, fin) ==
    [i \in DOMAIN prog |->
        IF prog[i].line >= first /\ prog[i].line <= last
        THEN [prog[i] EXCEPT !.catch = IF @ = 0 THEN catch ELSE @,
                             !.fin = IF @ = 0 THEN fin ELSE @]
        ELSE prog[i]]

-----------------------------------------------------------------------------
(* The scripts *)

\* verify_confetti with no wait between the two clicks.
verify_confetti_no_wait ==
    << I(4, "launch", "chromium", "headless"),
       I(5, "new_context", "", ""),
       I(6, "new_page", "context", ""),
       I(8, "goto", "http://localhost:3000", ""),
       I(12, "click", "button 'Generate'", ""),
       I(18, "click", "button 'Generate'", ""),
       W(19, "sleep", "", 1000),
       I(22, "screenshot", "jules-scratch/verification/verification.png", ""),
       I(24, "close", "", ""),
       I(24, "end", "", "") >>

verify_confetti ==
    << I(4, "launch", "chromium", "headless"),
       I(5, "new_context", "", ""),
       I(6, "new_page", "context", ""),
       I(8, "goto", "http://localhost:3000", ""),
       I(12, "click", "button 'Generate'", ""),
       W(15, "sleep", "", 1000),
       I(18, "click", "button 'Generate'", ""),
       W(19, "sleep", "", 1000),
       I(22, "screenshot", "jules-scratch/verification/verification.png", ""),
       I(24, "close", "", ""),
       I(24, "end", "", "") >>

verify_debounce_setting_statements ==
    << I(46, "launch", "chromium", "headless"),
       I(47, "new_page", "browser", ""),
       I(10, "goto", "http://localhost:3000", ""),
       W(13, "wait_for_load_state", "load", 0),
       If(17, "page.url", "contains '/new'", 23),
       I(18, "click", "button 'Start from scratch'", ""),
       I(23, "click", "text 'settings'", ""),
       I(30, "expect_visible", "label 'Auto-generate delay (ms)'", ""),
       I(33, "expect_value", "label 'Auto-generate delay (ms)'", "400"),
       I(36, "fill", "label 'Auto-generate delay (ms)'", "1000"),
       I(39, "expect_value", "label 'Auto-generate delay (ms)'", "1000"),
       I(42, "screenshot", "jules-scratch/verification/verification.png", ""),
       I(51, "close", "", ""),
       I(51, "end", "", "") >>

\* The same statements with no try/finally around the call of line 49.
verify_debounce_setting_unprotected == verify_debounce_setting_statements

\* try: verify_debounce_setting(page) finally: browser.close()
verify_debounce_setting == Protect(verify_debounce_setting_statements, 10, 42, 0, 51)

verify_jscad_preview_statements ==
    << I(5, "launch", "chromium", "headless"),
       I(6, "new_page", "browser", ""),
       I(9, "goto", "http://localhost:3000", ""),
       W(10, "sleep", "", 5000),
       I(13, "expect_visible", "h2:has-text('Ergogen')", ""),
       I(16, "click", "button:has-text('settings')", ""),
       I(19, "check", "label 'JSCAD Preview (experimental)'", ""),
       I(22, "click", "button:has-text('keyboard_alt')", ""),
       I(25, "click", "button:has-text('Generate')", ""),
       W(27, "sleep", "", 5000),
       W(31, "expect_visible", "text=Downloads", 15000),
       I(34, "expect_visible", "a:has-text('case.jscad')", ""),
       I(35, "click", "a:has-text('case.jscad')", ""),
       W(39, "expect_visible", "canvas", 15000),
       I(42, "screenshot", "jules-scratch/verification/jscad_preview.png", ""),
       I(44, "print", "Screenshot saved to jules-scratch/verification/jscad_preview.png", ""),
       Skip(46, "except", 52),
       I(47, "print", "An error occurred: {e}", ""),
       I(48, "screenshot", "jules-scratch/verification/error.png", ""),
       I(49, "print", "Error screenshot saved to jules-scratch/verification/error.png", ""),
       I(52, "close", "", ""),
       I(52, "end", "", "") >>

\* The same statements with the handler removed: try/finally only.
verify_jscad_preview_uncaught == Protect(verify_jscad_preview_statements, 9, 49, 0, 52)

\* The same statements with "Generate" clicked after the case.jscad link.
verify_jscad_preview_reordered ==
    LET p == verify_jscad_preview_statements
        q == [i \in DOMAIN p |-> IF p[i].line = 25 THEN p[13] ELSE IF p[i].line = 35 THEN p[9] ELSE p[i]]
    IN Protect(Protect(q, 9, 44, 47, 52), 47, 49, 0, 52)

\* try: lines 9-44; except Exception: lines 47-49; finally: line 52.
verify_jscad_preview ==
    Protect(Protect(verify_jscad_preview_statements, 9, 44, 47, 52), 47, 49, 0, 52)

\* verify_settings with the screenshot statement dropped.
verify_settings_no_screenshot ==
    << I(20, "launch", "chromium", "headless"),
       I(21, "new_page", "browser", ""),
       I(9, "goto", "http://localhost:3000", ""),
       I(13, "click", "testid 'settings-button'", ""),
       I(23, "close", "", ""),
       I(23, "end", "", "") >>

\* verify_settings with the screenshot taken before the click.
verify_settings_screenshot_first ==
    << I(20, "launch", "chromium", "headless"),
       I(21, "new_page", "browser", ""),
       I(9, "goto", "http://localhost:3000", ""),
       I(16, "screenshot", "jules-scratch/verification/settings_panel.png", ""),
       I(13, "click", "testid 'settings-button'", ""),
       I(23, "close", "", ""),
       I(23, "end", "", "") >>

\* verify_settings writing its screenshot where verify_jscad_preview writes its own.
verify_settings_same_path ==
    << I(20, "launch", "chromium", "headless"),
       I(21, "new_page", "browser", ""),
       I(9, "goto", "http://localhost:3000", ""),
       I(13, "click", "testid 'settings-button'", ""),
       I(16, "screenshot", "jules-scratch/verification/jscad_preview.png", ""),
       I(23, "close", "", ""),
       I(23, "end", "", "") >>

verify_settings ==
    << I(20, "launch", "chromium", "headless"),
       I(21, "new_page", "browser", ""),
       I(9, "goto", "http://localhost:3000", ""),
       I(13, "click", "testid 'settings-button'", ""),
       I(16, "screenshot", "jules-scratch/verification/settings_panel.png", ""),
       I(23, "close", "", ""),
       I(23, "end", "", "") >>

verify_stl_conversion ==
    << I(5, "launch", "chromium", "headless"),
       I(6, "new_page", "browser", ""),
       I(7, "goto", "http://localhost:3000", ""),
       W(8, "wait_for_selector", "[data-testid=\"download-row-stl-a_case\"]", 0),
       I(9, "screenshot", "jules-scratch/verification/initial_state.png", ""),
       I(12, "click", "button:has-text(\"Generate\")", ""),
       W(15, "wait_for_selector", "[data-testid=\"download-row-stl-a_case\"]:not([disabled])", 0),
       I(16, "screenshot", "jules-scratch/verification/final_state.png", ""),
       I(18, "close", "", ""),
       I(18, "end", "", "") >>

verify_layout ==
    Protect(Protect(
    << I(6, "launch", "chromium", "headless"),
       I(8, "new_context", "viewport 1280x720", ""),
       I(9, "new_page", "context", ""),
       I(12, "on", "console", ""),
       I(13, "on", "pageerror", ""),
       I(15, "print", "Navigating to /interactive-layout...", ""),
       I(16, "goto", "http://localhost:3000/interactive-layout", ""),
       W(19, "sleep", "", 2000),
       If(23, "#webpack-dev-server-client-overlay", "count() > 0", 41),
       I(24, "print", "Webpack overlay detected.", ""),
       If(29, "overlay.content_frame", "truthy", 32),
       I(30, "read", "frame body", "inner_text()"),
       I(31, "print", "Overlay Error Text: {error_text}", ""),
       Skip(32, "except", 36),
       I(33, "print", "Could not read overlay text: {e}", ""),
       I(36, "print", "Removing overlay...", ""),
       I(37, "evaluate", "document.getElementById('webpack-dev-server-client-overlay').remove()", ""),
       W(41, "wait_for_selector", "text=Ergogen", 5000),
       I(42, "print", "Page loaded (Header found).", ""),
       Skip(43, "except", 47),
       I(44, "print", "Page load timed out or header not found.", ""),
       I(47, "print", "Checking for panels...", ""),
       If(50, "button[title='Select Tool']", "is_visible()", 53),
       I(51, "print", "Tools panel visible (Select Tool button found).", ""),
       Skip(52, "else", 56),
       I(53, "print", "Tools panel NOT visible.", ""),
       If(56, "heading 'GRID'", "is_visible()", 59),
       I(57, "print", "Properties panel visible (GRID heading found).", ""),
       Skip(58, "else", 62),
       I(59, "print", "Properties panel NOT visible (GRID heading NOT found).", ""),
       If(62, "canvas", "count() > 0", 65),
       I(63, "print", "Canvas element found.", ""),
       Skip(64, "else", 68),
       I(65, "print", "Canvas element NOT found.", ""),
       I(68, "print", "Interacting with properties...", ""),
       If(74, "text 'Show Grid'", "is_visible()", 90),
       I(75, "print", "Grid label found.", ""),
       If(77, "#showGrid", "is_checked()", 80),
       I(78, "print", "Grid is enabled by default.", ""),
       Skip(79, "else", 83),
       I(80, "print", "Grid is disabled by default.", ""),
       I(83, "click", "text 'Show Grid'", ""),
       W(84, "sleep", "", 500),
       I(85, "read", "#showGrid", "is_checked()"),
       I(85, "print", "Grid toggled. Now checked: {}", ""),
       I(88, "click", "text 'Show Grid'", ""),
       Skip(89, "else", 96),
       I(90, "print", "Grid label NOT found.", ""),
       If(96, "label 'Grid Size'", "is_visible()", 121),
       If(96, "label 'Grid Unit'", "is_visible()", 121),
       I(98, "read", "label 'Grid Size'", "input_value()"),
       I(99, "read", "label 'Grid Unit'", "input_value()"),
       I(100, "print", "Initial State: {val} {unit}", ""),
       I(103, "print", "Changing unit to mm...", ""),
       I(104, "select_option", "label 'Grid Unit'", "mm"),
       W(105, "sleep", "", 200),
       I(106, "read", "label 'Grid Size'", "input_value()"),
       I(107, "print", "Value in mm: {val} (Expected ~19.05)", ""),
       I(110, "print", "Setting size to 10 mm...", ""),
       I(111, "fill", "label 'Grid Size'", "10"),
       I(114, "print", "Changing unit back to U...", ""),
       I(115, "select_option", "label 'Grid Unit'", "U"),
       W(116, "sleep", "", 200),
       I(117, "read", "label 'Grid Size'", "input_value()"),
       I(118, "print", "Value in U: {val} (Expected ~0.525)", ""),
       Skip(120, "else", 124),
       I(121, "print", "Grid Size input or Unit selector NOT found.", ""),
       I(124, "print", "Capturing screenshot...", ""),
       I(125, "screenshot", "verification/layout_editor.png", ""),
       I(126, "print", "Screenshot saved to verification/layout_editor.png", ""),
       I(128, "close", "", ""),
       I(128, "end", "", "") >>,
    28, 31, 33, 0), 41, 42, 44, 0)

verify_resizable ==
    << I(5, "launch", "chromium", "headless"),
       I(6, "new_context", "viewport 1280x720", ""),
       I(7, "new_page", "context", ""),
       I(9, "print", "Navigating to /interactive-layout...", ""),
       I(10, "goto", "http://localhost:3000/interactive-layout", ""),
       W(13, "wait_for_selector", "text=Ergogen", 0),
       If(17, "testid 'tools-panel'", "is_visible()", 27),
       I(18, "print", "Tools panel is visible.", ""),
       If(22, "testid 'tools-panel-resize-handle'", "count() == 0", 25),
       I(23, "print", "SUCCESS: Resize handle NOT found for Tools panel.", ""),
       Skip(24, "else", 26),
       I(25, "print", "FAILURE: Resize handle FOUND for Tools panel.", ""),
       Skip(26, "else", 29),
       I(27, "print", "Tools panel NOT visible.", ""),
       I(29, "close", "", ""),
       I(29, "end", "", "") >>

verify_snap_statements ==
    << I(6, "launch", "chromium", "headless"),
       I(7, "new_context", "viewport 1280x720", ""),
       I(8, "new_page", "context", ""),
       I(10, "print", "Navigating to /interactive-layout...", ""),
       I(11, "goto", "http://localhost:3000/interactive-layout", ""),
       W(15, "wait_for_selector", "text=Ergogen", 5000),
       I(16, "print", "Page loaded.", ""),
       Skip(17, "except", 22),
       I(18, "print", "Page load timeout.", ""),
       I(22, "print", "Enabling Snap to Grid...", ""),
       I(24, "click", "text 'Snap to Grid'", ""),
       W(25, "sleep", "", 500),
       I(28, "print", "Checking for Snap status...", ""),
       I(30, "mouse_move", "640,360", ""),
       W(31, "sleep", "", 200),
       If(34, "text=Snap:", "count() > 0", 47),
       I(35, "read", "text=Snap:", "text_content()"),
       I(36, "print", "Snap Status Found: '{text}'", ""),
       I(41, "mouse_move", "645,360", ""),
       W(43, "sleep", "", 200),
       I(44, "read", "text=Snap:", "text_content()"),
       I(45, "print", "Snap Status Moved: '{text}'", ""),
       Skip(46, "else", 50),
       I(47, "print", "Snap Status NOT found.", ""),
       I(50, "print", "Capturing screenshot...", ""),
       I(51, "screenshot", "verification/snap_grid.png", ""),
       I(52, "print", "Screenshot saved to verification/snap_grid.png", ""),
       I(54, "close", "", ""),
       I(54, "end", "", "") >>

\* The same statements with no try/except around the page-load wait.
verify_snap_unprotected == verify_snap_statements

\* try: lines 15-16; except: line 18.
verify_snap == Protect(verify_snap_statements, 15, 16, 18, 0)

verify_status_bar ==
    Protect(
    << I(6, "launch", "chromium", "headless"),
       I(7, "new_context", "viewport 1280x720", ""),
       I(8, "new_page", "context", ""),
       I(11, "on", "console", ""),
       I(12, "on", "pageerror", ""),
       I(14, "print", "Navigating to /interactive-layout...", ""),
       I(15, "goto", "http://localhost:3000/interactive-layout", ""),
       W(19, "wait_for_selector", "text=Ergogen", 5000),
       I(20, "print", "Page loaded.", ""),
       Skip(21, "except", 25),
       I(22, "print", "Page load timeout.", ""),
       I(25, "print", "Checking status bar elements...", ""),
       If(28, "#webpack-dev-server-client-overlay", "count() > 0", 34),
       I(29, "print", "Webpack Overlay Detected!", ""),
       If(31, "overlay.content_frame", "truthy", 34),
       I(32, "read", "frame body", "inner_text()"),
       I(32, "print", "Error: {}", ""),
       If(34, "text 'Zoom: 100%'", "is_visible()", 37),
       I(35, "print", "Zoom level found.", ""),
       Skip(36, "else", 39),
       I(37, "print", "Zoom level NOT found.", ""),
       If(39, "text 'Keys: 15'", "is_visible()", 42),
       I(40, "print", "Keys count found.", ""),
       Skip(41, "else", 45),
       I(42, "print", "Keys count NOT found.", ""),
       I(45, "print", "Moving mouse to center...", ""),
       I(46, "mouse_move", "640,360", ""),
       W(47, "sleep", "", 500),
       If(50, "text=Mouse:", "count() > 0", 54),
       I(51, "read", "text=Mouse:", "text_content()"),
       I(52, "print", "Status Bar Text: '{text}'", ""),
       Skip(53, "else", 57),
       I(54, "print", "Mouse label not found", ""),
       I(57, "print", "Capturing screenshot...", ""),
       I(58, "screenshot", "verification/status_bar.png", ""),
       I(59, "print", "Screenshot saved to verification/status_bar.png", ""),
       I(61, "close", "", ""),
       I(61, "end", "", "") >>,
    19, 20, 22, 0)

verify_unit_input_statements ==
    << I(6, "launch", "chromium", "headless"),
       I(7, "new_context", "viewport 1280x720", ""),
       I(8, "new_page", "context", ""),
       I(10, "print", "Navigating to /interactive-layout...", ""),
       I(11, "goto", "http://localhost:3000/interactive-layout", ""),
       W(15, "wait_for_selector", "text=Ergogen", 5000),
       I(16, "print", "Page loaded.", ""),
       Skip(17, "except", 22),
       I(18, "print", "Page load timeout.", ""),
       If(22, "label 'Grid Size'", "is_visible()", 26),
       I(23, "read", "label 'Grid Size'", "input_value()"),
       I(24, "print", "Initial Grid Size: {val}", ""),
       Skip(25, "else", 32),
       I(26, "print", "Grid Size input NOT found", ""),
       I(27, "return", "", ""),
       If(32, "label 'Change unit'", "is_visible()", 50),
       I(33, "read", "label 'Change unit'", "text_content()"),
       I(34, "print", "Initial Unit: {txt}", ""),
       I(37, "click", "label 'Change unit'", ""),
       W(38, "sleep", "", 200),
       I(39, "read", "label 'Change unit'", "text_content()"),
       I(39, "print", "Unit after click: {}", ""),
       I(45, "click", "label 'Change unit'", ""),
       I(46, "click", "label 'Change unit'", ""),
       W(47, "sleep", "", 200),
       I(48, "read", "label 'Change unit'", "text_content()"),
       I(48, "print", "Unit reset to: {}", ""),
       Skip(49, "else", 56),
       I(50, "print", "Unit button NOT found", ""),
       If(56, "label 'Increase value'", "is_visible()", 69),
       I(57, "click", "label 'Increase value'", ""),
       W(58, "sleep", "", 200),
       I(59, "read", "label 'Grid Size'", "input_value()"),
       I(60, "print", "Value after increase: {val} (Expected 1.125)", ""),
       I(64, "click", "label 'Decrease value'", ""),
       W(65, "sleep", "", 200),
       I(66, "read", "label 'Grid Size'", "input_value()"),
       I(67, "print", "Value after decrease: {val} (Expected 1)", ""),
       Skip(68, "else", 72),
       I(69, "print", "Arrow buttons NOT found", ""),
       I(72, "print", "Capturing screenshot...", ""),
       I(73, "screenshot", "verification/unit_input.png", ""),
       I(74, "print", "Screenshot saved to verification/unit_input.png", ""),
       I(76, "close", "", ""),
       I(76, "end", "", "") >>

\* The same statements with the third click of the unit button (line 46) left out.
verify_unit_input_two_clicks ==
    Protect(SelectSeq(verify_unit_input_statements, LAMBDA x : x.line # 46), 15, 16, 18, 0)

\* try: lines 15-16; except: line 18.
verify_unit_input == Protect(verify_unit_input_statements, 15, 16, 18, 0)

verify_viz_mode_statements ==
    << I(20, "launch", "chromium", "headless"),
       I(21, "new_context", "viewport 1280x720", ""),
       I(31, "add_init_script", "ergogen:config", "json.dumps(CONFIG_YAML)"),
       I(35, "new_page", "context", ""),
       I(37, "print", "Navigating to /interactive-layout...", ""),
       I(38, "goto", "http://localhost:3000/interactive-layout", ""),
       W(41, "wait_for_selector", "text=Visualization", 10000),
       I(42, "print", "Visualization selector found.", ""),
       Skip(43, "except", 47),
       I(44, "print", "Selector not found.", ""),
       I(47, "print", "Selecting Visual Mode...", ""),
       I(48, "select_option", "label 'Visualization Mode'", "visual"),
       W(49, "sleep", "", 1000),
       I(50, "screenshot", "verification/viz_visual.png", ""),
       I(51, "print", "Screenshot saved: verification/viz_visual.png", ""),
       I(54, "print", "Selecting Wireframe Mode...", ""),
       I(55, "select_option", "label 'Visualization Mode'", "wireframe"),
       W(56, "sleep", "", 1000),
       I(57, "screenshot", "verification/viz_wireframe.png", ""),
       I(58, "print", "Screenshot saved: verification/viz_wireframe.png", ""),
       I(60, "close", "", ""),
       I(60, "end", "", "") >>

\* The same statements with the init script registered after the navigation.
verify_viz_mode_seeded_late ==
    LET p == verify_viz_mode_statements
        q == <<p[1], p[2], p[4], p[5], p[6], p[3]>> \o SubSeq(p, 7, Len(p))
    IN Protect(q, 41, 42, 44, 0)

\* try: lines 41-42; except: line 44.
verify_viz_mode == Protect(verify_viz_mode_statements, 41, 42, 44, 0)

\* if locals[target] <arg> locals["y0"]: ... ; on false go to line els.
IfCmp(line, target, arg, els) == [I(line, "if_local", target, arg) EXCEPT !.els = els]

verify_y_flip ==
    Protect(
    << I(6, "launch", "chromium", "headless"),
       I(7, "new_context", "viewport 1280x720", ""),
       I(8, "new_page", "context", ""),
       I(10, "print", "Navigating to /interactive-layout...", ""),
       I(11, "goto", "http://localhost:3000/interactive-layout", ""),
       W(15, "wait_for_selector", "text=Ergogen", 5000),
       I(16, "print", "Page loaded.", ""),
       Skip(17, "except", 22),
       I(18, "print", "Page load timeout.", ""),
       I(22, "mouse_move", "640,360", ""),
       W(23, "sleep", "", 500),
       I(33, "get_coords", "text=Mouse:", "y0"),
       I(34, "print", "Center: {x0}, {y0}", ""),
       I(37, "print", "Moving UP...", ""),
       I(38, "mouse_move", "640,310", ""),
       W(39, "sleep", "", 200),
       I(40, "get_coords", "text=Mouse:", "y_up"),
       I(41, "print", "Up: {x_up}, {y_up}", ""),
       IfCmp(43, "y_up", ">", 46),
       I(44, "print", "SUCCESS: Y increased when moving UP.", ""),
       Skip(45, "else", 49),
       I(46, "print", "FAILURE: Y did not increase when moving UP.", ""),
       I(49, "print", "Moving DOWN...", ""),
       I(50, "mouse_move", "640,410", ""),
       W(51, "sleep", "", 200),
       I(52, "get_coords", "text=Mouse:", "y_down"),
       I(53, "print", "Down: {x_down}, {y_down}", ""),
       IfCmp(55, "y_down", "<", 58),
       I(56, "print", "SUCCESS: Y decreased when moving DOWN.", ""),
       Skip(57, "else", 60),
       I(58, "print", "FAILURE: Y did not decrease when moving DOWN.", ""),
       I(60, "close", "", ""),
       I(60, "end", "", "") >>,
    15, 16, 18, 0)

-----------------------------------------------------------------------------
(* Running a script *)

ScriptNames ==
    {"verify_confetti", "verify_debounce_setting", "verify_jscad_preview",
     "verify_settings", "verify_stl_conversion", "verify_layout",
     "verify_resizable", "verify_snap", "verify_status_bar",
     "verify_unit_input", "verify_viz_mode", "verify_y_flip"}

Prog(s) ==
    CASE s = "verify_confetti" -> verify_confetti
      [] s = "verify_debounce_setting" -> verify_debounce_setting
      [] s = "verify_jscad_preview" -> verify_jscad_preview
      [] s = "verify_settings" -> verify_settings
      [] s = "verify_stl_conversion" -> verify_stl_conversion
      [] s = "verify_layout" -> verify_layout
      [] s = "verify_resizable" -> verify_resizable
      [] s = "verify_snap" -> verify_snap
      [] s = "verify_status_bar" -> verify_status_bar
      [] s = "verify_unit_input" -> verify_unit_input
      [] s = "verify_viz_mode" -> verify_viz_mode
      [] s = "verify_y_flip" -> verify_y_flip

\* Every screenshot path a script names.
PathsOf(s) == {Prog(s)[i].target : i \in {j \in DOMAIN Prog(s) : Prog(s)[j].op = "screenshot"}}

AllPaths == UNION {PathsOf(s) : s \in ScriptNames}

\* No exception is propagating.
NoExc == [kind |-> "none", line |-> 0]

\* The statement about to be executed.
Cur == Prog(script)[pc]

Running == outcome = "running"

\* The first statement of source line l.
PcOfLine(prog, l) == CHOOSE i \in DOMAIN prog : prog[i].line = l /\ \A j \in DOMAIN prog : prog[j].line = l => i <= j

\* Where control lands when it reaches statement i: an else: or except: line
\* reached from above ends the block before it and skips its own block.
RECURSIVE Land(_, _)
Land(prog, i) ==
    IF prog[i].op \in {"else", "except"} THEN Land(prog, PcOfLine(prog, prog[i].els)) ELSE i

\* The statement after the current one.
Succ == Land(Prog(script), pc + 1)

\* Reaching the end of the function ends the run: normally, or, when a finally
\* body ran because of an exception, by that exception.
Ending(to, e) ==
    IF Prog(script)[to].op = "end"
    THEN IF e.kind = "none" THEN "completed" ELSE "aborted"
    ELSE "running"

\* Nothing read.
NoGot == [unit |-> "", value |-> 0]

\* What the console, the browser and the filesystem saw of one statement, with
\* what the statement read from the page.
Ev(i, ok, got) ==
    [line |-> i.line, op |-> i.op, target |-> i.target, arg |-> i.arg,
     ok |-> ok, t |-> clock, got |-> got]

\* Statement i is done, having read got; control goes to statement to.
ProceedWith(i, to, d, got) ==
    /\ trace' = Append(trace, Ev(i, TRUE, got))
    /\ clock' = clock + d
    /\ pc' = to
    /\ exc' = exc
    /\ outcome' = Ending(to, exc)

\* Statement i is done; control goes to statement to.
Proceed(i, to, d) == ProceedWith(i, to, d, NoGot)

\* Statement i raised: to the handler of the enclosing try if it has one, else
\* to its finally body with the exception pending, else out of the script.
Raise(i, kind) ==
    /\ trace' = Append(trace, Ev(i, FALSE, NoGot))
    /\ clock' = clock + i.ms
    /\ IF i.catch # 0
       THEN /\ pc' = Land(Prog(script), PcOfLine(Prog(script), i.catch))
            /\ exc' = exc
            /\ outcome' = "running"
       ELSE IF i.fin # 0
       THEN /\ pc' = Land(Prog(script), PcOfLine(Prog(script), i.fin))
            /\ exc' = [kind |-> kind, line |-> i.line]
            /\ outcome' = "running"
       ELSE /\ pc' = pc
            /\ exc' = [kind |-> kind, line |-> i.line]
            /\ outcome' = "aborted"

\* What a page load leaves in localStorage: every registered init script ran.
Seeded(st, scripts) ==
    [k \in DOMAIN st \cup {x.key : x \in scripts} |->
        IF \E x \in scripts : x.key = k
        THEN (CHOOSE x \in scripts : x.key = k).value
        ELSE st[k]]

-----------------------------------------------------------------------------
(* The grid settings of the page *)

Units == {"U", "u", "mm"}

\* The unit button cycles U -> u -> mm -> U.
NextUnit(u) == IF u = "U" THEN "u" ELSE IF u = "u" THEN "mm" ELSE "U"

\* The length of one unit, in 1/100000 mm: 1 U is 19.05 mm, 1 u is 19 mm.
UnitLen(u) == IF u = "U" THEN 1905000 ELSE IF u = "u" THEN 1900000 ELSE 100000

\* The step of the Increase and Decrease buttons: 0.125 of the unit shown.
StepLen(u) == UnitLen(u) \div 8

\* The grid settings not met yet by any call of the script.
Unknown == [unit |-> "?", len |-> 0]

\* The grid settings a page can have when the script first meets them.
PageStates == [unit : Units, len : {(7 + k) * StepLen("U") : k \in 1..MaxSize}]

\* The number in the Grid Size field, in thousandths of the unit shown.
Shown(pg) == pg.len \div (UnitLen(pg.unit) \div 1000)

\* The controls of the grid settings.
GridControls ==
    {"label 'Grid Size'", "label 'Grid Unit'", "label 'Change unit'",
     "label 'Increase value'", "label 'Decrease value'"}

\* The grid settings statement i may find: those known, or any when it is the
\* first to meet them.
Reveal(i) ==
    IF i.target \in GridControls /\ page = Unknown THEN PageStates ELSE {page}

\* The number a typed text stands for.
Typed(text) == IF text = "10" THEN 10 ELSE 0

\* The grid settings after statement i acted on settings pg.
PageAfter(i, pg) ==
    IF i.op = "click" /\ i.target = "label 'Change unit'"
    THEN [pg EXCEPT !.unit = NextUnit(pg.unit)]
    ELSE IF i.op = "click" /\ i.target = "label 'Increase value'"
    THEN [pg EXCEPT !.len = pg.len + StepLen(pg.unit)]
    ELSE IF i.op = "click" /\ i.target = "label 'Decrease value'"
    THEN [pg EXCEPT !.len = pg.len - StepLen(pg.unit)]
    ELSE IF i.op = "select_option" /\ i.target = "label 'Grid Unit'"
    THEN [pg EXCEPT !.unit = i.arg]
    ELSE IF i.op = "fill" /\ i.target = "label 'Grid Size'"
    THEN [pg EXCEPT !.len = Typed(i.arg) * UnitLen(pg.unit)]
    ELSE pg

\* What statement i reads from settings pg.
Got(i, pg) ==
    IF i.op = "read" /\ i.target = "label 'Grid Size'"
    THEN [unit |-> "", value |-> Shown(pg)]
    ELSE IF i.op = "read" /\ i.target \in {"label 'Grid Unit'", "label 'Change unit'"}
    THEN [unit |-> pg.unit, value |-> 0]
    ELSE NoGot

Init ==
    /\ script \in ScriptNames
    /\ pc = 1
    /\ outcome = "running"
    /\ browser = "none"
    /\ exc = NoExc
    /\ latency \in Latency
    /\ clock = 0
    /\ trace = <<>>
    /\ shots = {}
    /\ initScripts = {}
    /\ storage = <<>>
    /\ locals = <<>>
    /\ page = Unknown
    /\ page0 = Unknown
    /\ files = [p \in AllPaths |-> "none"]
    /\ wrote = {}
    /\ run = 1

\* browser = p.chromium.launch(headless=True)
Launch ==
    /\ Running /\ Cur.op = "launch"
    /\ browser' = "open"
    /\ Proceed(Cur, Succ, 0)
    /\ UNCHANGED <<script, latency, page, page0, shots, initScripts, storage, locals, files, wrote, run>>

\* context = browser.new_context(...)
NewContext ==
    /\ Running /\ Cur.op = "new_context"
    /\ Proceed(Cur, Succ, 0)
    /\ UNCHANGED <<script, latency, page, page0, browser, shots, initScripts, storage, locals, files, wrote, run>>

\* context.add_init_script(...): the script runs at every later page load.
AddInitScript ==
    /\ Running /\ Cur.op = "add_init_script"
    /\ initScripts' = initScripts \cup {[key |-> Cur.target, value |-> Cur.arg]}
    /\ Proceed(Cur, Succ, 0)
    /\ UNCHANGED <<script, latency, page, page0, browser, shots, storage, locals, files, wrote, run>>

\* page = context.new_page() or browser.new_page()
NewPage ==
    /\ Running /\ Cur.op = "new_page"
    /\ Proceed(Cur, Succ, 0)
    /\ UNCHANGED <<script, latency, page, page0, browser, shots, initScripts, storage, locals, files, wrote, run>>

\* page.on(event, callback)
On ==
    /\ Running /\ Cur.op = "on"
    /\ Proceed(Cur, Succ, 0)
    /\ UNCHANGED <<script, latency, page, page0, browser, shots, initScripts, storage, locals, files, wrote, run>>

\* page.goto(url): the page loads, or the navigation raises, with the document
\* created or not.
Goto ==
    /\ Running /\ Cur.op = "goto"
    /\ \/ /\ storage' = Seeded(storage, initScripts)
          /\ Proceed(Cur, Succ, latency)
       \/ /\ storage' \in {storage, Seeded(storage, initScripts)}
          /\ Raise(Cur, "Error")
    /\ UNCHANGED <<script, latency, page, page0, browser, shots, initScripts, locals, files, wrote, run>>

\* time.sleep(s), page.wait_for_timeout(ms)
Sleep ==
    /\ Running /\ Cur.op = "sleep"
    /\ Proceed(Cur, Succ, Cur.ms)
    /\ UNCHANGED <<script, latency, page, page0, browser, shots, initScripts, storage, locals, files, wrote, run>>

\* A call on the page returns after some time, having acted on the page or
\* read from it, or raises.
ReturnsOrRaises(kind) ==
    \/ \E pg \in Reveal(Cur) :
           /\ page' = PageAfter(Cur, pg)
           /\ page0' = IF page = Unknown THEN pg ELSE page0
           /\ ProceedWith(Cur, Succ, latency, Got(Cur, pg))
    \/ /\ Raise(Cur, kind)
       /\ UNCHANGED <<page, page0>>

\* page.wait_for_selector(...), page.wait_for_load_state(...)
WaitFor ==
    /\ Running /\ Cur.op \in {"wait_for_selector", "wait_for_load_state"}
    /\ ReturnsOrRaises("TimeoutError")
    /\ UNCHANGED <<script, latency, browser, shots, initScripts, storage, locals, files, wrote, run>>

\* locator.click(), page.click(selector)
Click ==
    /\ Running /\ Cur.op = "click"
    /\ ReturnsOrRaises("TimeoutError")
    /\ UNCHANGED <<script, latency, browser, shots, initScripts, storage, locals, files, wrote, run>>

\* locator.check()
Check ==
    /\ Running /\ Cur.op = "check"
    /\ ReturnsOrRaises("TimeoutError")
    /\ UNCHANGED <<script, latency, browser, shots, initScripts, storage, locals, files, wrote, run>>

\* locator.fill(value)
Fill ==
    /\ Running /\ Cur.op = "fill"
    /\ ReturnsOrRaises("TimeoutError")
    /\ UNCHANGED <<script, latency, browser, shots, initScripts, storage, locals, files, wrote, run>>

\* locator.select_option(value)
SelectOption ==
    /\ Running /\ Cur.op = "select_option"
    /\ ReturnsOrRaises("TimeoutError")
    /\ UNCHANGED <<script, latency, browser, shots, initScripts, storage, locals, files, wrote, run>>

\* page.mouse.move(x, y)
MouseMove ==
    /\ Running /\ Cur.op = "mouse_move"
    /\ ReturnsOrRaises("Error")
    /\ UNCHANGED <<script, latency, browser, shots, initScripts, storage, locals, files, wrote, run>>

\* page.evaluate(expression)
Evaluate ==
    /\ Running /\ Cur.op = "evaluate"
    /\ ReturnsOrRaises("Error")
    /\ UNCHANGED <<script, latency, browser, shots, initScripts, storage, locals, files, wrote, run>>

\* expect(locator).to_be_visible(), expect(locator).to_have_value(v)
Expect ==
    /\ Running /\ Cur.op \in {"expect_visible", "expect_value"}
    /\ ReturnsOrRaises("AssertionError")
    /\ UNCHANGED <<script, latency, browser, shots, initScripts, storage, locals, files, wrote, run>>

\* locator.input_value(), .text_content(), .inner_text(), .is_checked() for its value
Read ==
    /\ Running /\ Cur.op = "read"
    /\ ReturnsOrRaises("TimeoutError")
    /\ UNCHANGED <<script, latency, browser, shots, initScripts, storage, locals, files, wrote, run>>

\* The conditions that ask the browser nothing: a property already at hand.
PureConditions == {"page.url", "overlay.content_frame"}

\* if <condition on the page>: the page answers yes or no, or the query raises.
IfPage ==
    /\ Running /\ Cur.op = "if"
    /\ \/ Proceed(Cur, Succ, 0)
       \/ Proceed(Cur, Land(Prog(script), PcOfLine(Prog(script), Cur.els)), 0)
       \/ /\ Cur.target \notin PureConditions
          /\ Raise(Cur, "Error")
    /\ UNCHANGED <<script, latency, page, page0, browser, shots, initScripts, storage, locals, files, wrote, run>>

\* The comparison made non-strict.
Compare_nonstrict(l, op) ==
    IF op = ">" THEN l >= locals["y0"] ELSE l <= locals["y0"]

\* The comparison of a reading against the centre reading y0.
Compare(l, op) ==
    IF op = ">" THEN l > locals["y0"] ELSE l < locals["y0"]

\* if y_up > y0: / if y_down < y0:
IfLocal ==
    /\ Running /\ Cur.op = "if_local"
    /\ IF Compare(locals[Cur.target], Cur.arg)
       THEN Proceed(Cur, Succ, 0)
       ELSE Proceed(Cur, Land(Prog(script), PcOfLine(Prog(script), Cur.els)), 0)
    /\ UNCHANGED <<script, latency, page, page0, browser, shots, initScripts, storage, locals, files, wrote, run>>

\* x, y = get_coords(): the status text is read and parsed, or is missing
\* (text_content raises), or does not parse (split or float raises).
GetCoords ==
    /\ Running /\ Cur.op = "get_coords"
    /\ \/ /\ \E y \in Coords : locals' = (Cur.arg :> y) @@ locals
          /\ Proceed(Cur, Succ, latency)
       \/ /\ \E kind \in {"TimeoutError", "ValueError"} : Raise(Cur, kind)
          /\ UNCHANGED locals
    /\ UNCHANGED <<script, latency, page, page0, browser, shots, initScripts, storage, files, wrote, run>>

\* print(message)
PrintLine ==
    /\ Running /\ Cur.op = "print"
    /\ Proceed(Cur, Succ, 0)
    /\ UNCHANGED <<script, latency, page, page0, browser, shots, initScripts, storage, locals, files, wrote, run>>

\* page.screenshot(path=...): the file is written, or the call raises.
Screenshot ==
    /\ Running /\ Cur.op = "screenshot"
    /\ \/ /\ shots' = shots \cup {Cur.target}
          /\ files' = [files EXCEPT ![Cur.target] = script]
          /\ wrote' = wrote \cup {<<script, Cur.target>>}
          /\ Proceed(Cur, Succ, latency)
       \/ /\ Raise(Cur, "Error")
          /\ UNCHANGED <<shots, files, wrote>>
    /\ UNCHANGED <<script, latency, page, page0, browser, initScripts, storage, locals, run>>

\* browser.close()
Close ==
    /\ Running /\ Cur.op = "close"
    /\ browser' = "closed"
    /\ Proceed(Cur, Succ, 0)
    /\ UNCHANGED <<script, latency, page, page0, shots, initScripts, storage, locals, files, wrote, run>>

\* return
Return ==
    /\ Running /\ Cur.op = "return"
    /\ trace' = Append(trace, Ev(Cur, TRUE, NoGot))
    /\ outcome' = "returned"
    /\ UNCHANGED <<script, latency, page, page0, pc, browser, exc, clock, shots, initScripts, storage, locals, files, wrote, run>>

Next ==
    \/ Launch \/ NewContext \/ AddInitScript \/ NewPage \/ On \/ Goto \/ Sleep
    \/ WaitFor \/ Click \/ Check \/ Fill \/ SelectOption \/ MouseMove \/ Evaluate
    \/ Expect \/ Read \/ IfPage \/ IfLocal \/ GetCoords \/ PrintLine \/ Screenshot
    \/ Close \/ Return

Spec == Init /\ [][Next]_vars

\* python <script>.py once more, after the run before it ended: a new process,
\* a new browser, the same working directory.
RunNext ==
    /\ outcome # "running" /\ run = 1
    /\ run' = 2
    /\ script' \in ScriptNames
    /\ latency' \in Latency
    /\ pc' = 1
    /\ outcome' = "running"
    /\ browser' = "none"
    /\ exc' = NoExc
    /\ clock' = 0
    /\ trace' = <<>>
    /\ shots' = {}
    /\ initScripts' = {}
    /\ storage' = <<>>
    /\ locals' = <<>>
    /\ page' = Unknown
    /\ page0' = Unknown
    /\ UNCHANGED <<files, wrote>>

NextSeq == Next \/ RunNext

\* Two scripts run one after the other.
SpecSeq == Init /\ [][NextSeq]_vars

-----------------------------------------------------------------------------
(* Properties *)

Ended == outcome # "running"

\* The indices of the executed statements of source line l that raised.
Failed(l) == {i \in DOMAIN trace : trace[i].line = l /\ ~trace[i].ok}

\* The indices of the executed statements of source line l that returned.
Done(l) == {i \in DOMAIN trace : trace[i].line = l /\ trace[i].ok}

\* C1: in every script, on every path by which a run ends (completion, an early
\* return, or an error raised by a step), close() has been called on the browser.
C1_ClosedOnEveryPath == Ended => browser = "closed"

\* C2 as claimed: every run ends either with at least one screenshot written or
\* aborted by an unhandled failure, never both and never neither.
C2_ScreenshotOrAbort == Ended => ((shots # {}) <=> (outcome # "aborted"))

\* C2: a run that reaches the end of a script other than verify_resizable and
\* verify_y_flip has written at least one screenshot; those two scripts never
\* write one.
C2_ScreenshotWhenCompleted ==
    /\ (outcome = "completed" /\ script \notin {"verify_resizable", "verify_y_flip"}) => shots # {}
    /\ script \in {"verify_resizable", "verify_y_flip"} => shots = {}

C2_Witness ==
    /\ script = "verify_unit_input" /\ outcome = "completed"
    /\ shots = {"verification/unit_input.png"}

\* The scripts that catch the errors of their interactions.
Handling == {"verify_jscad_preview"}

\* C3 as claimed: in a script with no exception handler around its interactions,
\* a run that an error terminates uncaught has written no screenshot.
C3_NoScreenshotWhenAborted ==
    (script \notin Handling /\ outcome = "aborted") => shots = {}

\* The screenshots a script takes before its last call that can raise.
EarlyShots(s) ==
    IF s = "verify_stl_conversion" THEN {"jules-scratch/verification/initial_state.png"}
    ELSE IF s = "verify_viz_mode" THEN {"verification/viz_visual.png"}
    ELSE {}

\* C3: in a script with no exception handler around its interactions, a run
\* that an error terminates uncaught writes no screenshot after the failing step,
\* and has written none at all except initial_state.png in verify_stl_conversion
\* and viz_visual.png in verify_viz_mode, which precede the failing step.
C3_NoScreenshotAfterFailure ==
    (script \notin Handling /\ outcome = "aborted") =>
        /\ shots \subseteq EarlyShots(script)
        /\ \A i \in Failed(exc.line) : \A j \in DOMAIN trace :
               j >= i => ~(trace[j].op = "screenshot" /\ trace[j].ok)

C3_Witness ==
    /\ script = "verify_stl_conversion" /\ outcome = "aborted"
    /\ exc.line = 15
    /\ shots = {"jules-scratch/verification/initial_state.png"}

C4_ErrorPng == "jules-scratch/verification/error.png"

\* C4: in verify_jscad_preview, whenever a step inside the try block (lines
\* 9-44) raises, the run then prints the exception, attempts a screenshot to
\* error.png and closes the browser, in this order, and the exception of the
\* try block is not propagated out of run().
C4_HandlerSequence ==
    script = "verify_jscad_preview" =>
        \A i \in DOMAIN trace : (trace[i].line \in 9..44 /\ ~trace[i].ok) =>
            /\ Len(trace) = i => (outcome = "running" /\ Cur.line = 47)
            /\ Len(trace) > i => (trace[i+1].op = "print" /\ trace[i+1].line = 47)
            /\ Len(trace) = i + 1 => (outcome = "running" /\ Cur.line = 48)
            /\ Len(trace) > i + 1 =>
                   (trace[i+2].op = "screenshot" /\ trace[i+2].target = C4_ErrorPng)
            /\ \A j \in 1..i+2 : j \in DOMAIN trace => trace[j].op # "close"
            /\ exc.line # trace[i].line
            /\ Ended => /\ Len(trace) >= i + 3
                        /\ trace[Len(trace)].op = "close"
                        /\ browser = "closed"
                        /\ outcome = "aborted" => exc.line = 48

C4_Witness ==
    /\ script = "verify_jscad_preview" /\ outcome = "completed"
    /\ Failed(39) # {}
    /\ shots = {C4_ErrorPng}
    /\ browser = "closed"

C5_Shared == "jules-scratch/verification/verification.png"

\* C5 as claimed: no two distinct scripts write the same screenshot path, so a
\* screenshot a script wrote is still that script's after any other script ran.
C5_NoSharedPath == \A w \in wrote : files[w[2]] = w[1]

\* C5: a screenshot a script wrote is still that script's after any other script
\* ran, except jules-scratch/verification/verification.png, which verify_confetti
\* and verify_debounce_setting both write and the later of the two runs owns.
C5_OnlyVerificationPngShared ==
    \A w \in wrote :
        \/ files[w[2]] = w[1]
        \/ /\ w[2] = C5_Shared
           /\ {w[1], files[w[2]]} = {"verify_confetti", "verify_debounce_setting"}

C5_Witness ==
    /\ run = 2 /\ outcome = "completed" /\ script = "verify_jscad_preview"
    /\ <<"verify_stl_conversion", "jules-scratch/verification/final_state.png">> \in wrote
    /\ files["jules-scratch/verification/final_state.png"] = "verify_stl_conversion"
    /\ files["jules-scratch/verification/jscad_preview.png"] = "verify_jscad_preview"

C6_Input == "label 'Auto-generate delay (ms)'"

\* C6: in verify_debounce_setting the screenshot is written only after, in this
\* order, the settings control was clicked and the delay input was asserted
\* visible, asserted to hold "400", filled with "1000" and asserted to hold
\* "1000"; if any of these steps fails, no screenshot is written, the error
\* propagates to the caller, and the browser is nevertheless closed.
C6_DebounceOrder ==
    script = "verify_debounce_setting" =>
        /\ shots # {} => Done(42) # {}
        /\ \A j \in Done(42) :
               \E i1 \in Done(23), i2 \in Done(30), i3 \in Done(33), i4 \in Done(36), i5 \in Done(39) :
                   /\ i1 < i2 /\ i2 < i3 /\ i3 < i4 /\ i4 < i5 /\ i5 < j
                   /\ trace[i1].op = "click" /\ trace[i1].target = "text 'settings'"
                   /\ trace[i2].op = "expect_visible" /\ trace[i2].target = C6_Input
                   /\ trace[i3].op = "expect_value" /\ trace[i3].target = C6_Input /\ trace[i3].arg = "400"
                   /\ trace[i4].op = "fill" /\ trace[i4].target = C6_Input /\ trace[i4].arg = "1000"
                   /\ trace[i5].op = "expect_value" /\ trace[i5].target = C6_Input /\ trace[i5].arg = "1000"
        /\ \A l \in {23, 30, 33, 36, 39} : Failed(l) # {} =>
               /\ shots = {}
               /\ exc.line = l
               /\ IF Ended THEN outcome = "aborted" /\ browser = "closed"
                           ELSE Cur.op = "close"

C6_Witness ==
    /\ script = "verify_debounce_setting" /\ outcome = "aborted"
    /\ Failed(33) # {} /\ exc.line = 33
    /\ browser = "closed" /\ shots = {}

\* The calls of click() on the "Generate" button.
C7_Clicks == {i \in DOMAIN trace : trace[i].op = "click" /\ trace[i].target = "button 'Generate'"}

C7_ScreenshotAfterBothClicks ==
    \A j \in DOMAIN trace : trace[j].op = "screenshot" =>
        Cardinality({i \in C7_Clicks : i < j /\ trace[i].ok}) = 2

\* C7 as claimed: in verify_confetti "Generate" is clicked exactly twice, the
\* second click within 1000 ms of the first, and the screenshot is taken only
\* after both clicks.
C7_SecondClickWithinASecond ==
    script = "verify_confetti" =>
        /\ Cardinality(C7_Clicks) <= 2
        /\ outcome = "completed" => Cardinality(C7_Clicks) = 2
        /\ \A i, j \in C7_Clicks : i < j => trace[j].t - trace[i].t <= 1000
        /\ C7_ScreenshotAfterBothClicks

\* C7: in verify_confetti "Generate" is clicked exactly twice, the second click
\* no sooner than 1000 ms after the first, and the screenshot is taken only after
\* both clicks.
C7_SecondClickAfterASecond ==
    script = "verify_confetti" =>
        /\ Cardinality(C7_Clicks) <= 2
        /\ outcome = "completed" => Cardinality(C7_Clicks) = 2
        /\ \A i, j \in C7_Clicks : i < j => trace[j].t - trace[i].t >= 1000
        /\ C7_ScreenshotAfterBothClicks

C7_Witness ==
    /\ script = "verify_confetti" /\ outcome = "completed"
    /\ Cardinality(C7_Clicks) = 2
    /\ shots = {C5_Shared}

\* The canvas check of verify_jscad_preview comes after the five clicks, in order.
C8_CanvasAfterClicks ==
    \A j \in DOMAIN trace : (trace[j].op = "expect_visible" /\ trace[j].target = "canvas") =>
        \E i1 \in Done(16), i2 \in Done(19), i3 \in Done(22), i4 \in Done(25), i5 \in Done(35) :
            /\ i1 < i2 /\ i2 < i3 /\ i3 < i4 /\ i4 < i5 /\ i5 < j
            /\ trace[i1].op = "click" /\ trace[i1].target = "button:has-text('settings')"
            /\ trace[i2].op = "check" /\ trace[i2].target = "label 'JSCAD Preview (experimental)'"
            /\ trace[i3].op = "click" /\ trace[i3].target = "button:has-text('keyboard_alt')"
            /\ trace[i4].op = "click" /\ trace[i4].target = "button:has-text('Generate')"
            /\ trace[i5].op = "click" /\ trace[i5].target = "a:has-text('case.jscad')"

\* C8 as claimed: verify_jscad_preview navigates to a URL that carries a query
\* parameter, and checks the canvas only after the five clicks, in order.
C8_QueryParameter ==
    script = "verify_jscad_preview" =>
        /\ \A i \in DOMAIN trace : trace[i].op = "goto" => trace[i].arg # ""
        /\ C8_CanvasAfterClicks

\* C8: verify_jscad_preview navigates to http://localhost:3000 with no query
\* parameter, and the canvas visibility check happens only after every click of
\* the sequence (settings, JSCAD Preview checkbox, back to main view, Generate,
\* case.jscad link) has been performed in that order.
C8_PlainUrlThenClicksThenCanvas ==
    script = "verify_jscad_preview" =>
        /\ \A i \in DOMAIN trace : trace[i].op = "goto" =>
               (trace[i].target = "http://localhost:3000" /\ trace[i].arg = "")
        /\ C8_CanvasAfterClicks

C8_Witness ==
    /\ script = "verify_jscad_preview"
    /\ Done(9) # {} /\ Done(39) # {}

\* C9: in verify_viz_mode the configuration is seeded under 'ergogen:config'
\* before the page is created and before navigation, so the value is in
\* localStorage at every page load; no other script seeds or writes storage.
C9_SeededBeforeLoad ==
    /\ script = "verify_viz_mode" =>
          /\ \A j \in DOMAIN trace : trace[j].op \in {"new_page", "goto"} =>
                 \E i \in DOMAIN trace :
                     i < j /\ trace[i].op = "add_init_script" /\ trace[i].target = "ergogen:config"
          /\ \A j \in DOMAIN trace : (trace[j].op = "goto" /\ trace[j].ok) =>
                 /\ "ergogen:config" \in DOMAIN storage
                 /\ storage["ergogen:config"] = "json.dumps(CONFIG_YAML)"
    /\ script # "verify_viz_mode" =>
          /\ initScripts = {}
          /\ DOMAIN storage = {}
          /\ \A j \in DOMAIN trace : trace[j].op # "add_init_script"

C9_Witness ==
    /\ script = "verify_viz_mode" /\ Done(38) # {}
    /\ DOMAIN storage = {"ergogen:config"}
    /\ outcome = "completed"

\* For the scripts that catch the timeout of the page-load wait: the line of the
\* wait, of the message printed by the handler, and of the statement after the try.
C10_Caught(s) ==
    CASE s = "verify_layout" -> <<41, 44, 47>>
      [] s = "verify_snap" -> <<15, 18, 22>>
      [] s = "verify_status_bar" -> <<19, 22, 25>>
      [] s = "verify_unit_input" -> <<15, 18, 22>>
      [] s = "verify_y_flip" -> <<15, 18, 22>>
      [] s = "verify_viz_mode" -> <<41, 44, 47>>

\* For the scripts that do not: the line of the page-load wait.
C10_Uncaught(s) == IF s = "verify_resizable" THEN 13 ELSE 8

\* C10: a timeout of a wait is either unhandled (the run aborts at that wait) or
\* caught and logged: in verify_layout, verify_snap, verify_status_bar,
\* verify_unit_input, verify_y_flip and verify_viz_mode a timeout of the
\* page-load wait is caught, a message is printed and the run proceeds to the
\* next step; in verify_resizable and verify_stl_conversion it aborts the run
\* with no later step executed.
C10_TimeoutHandling ==
    /\ \A i \in DOMAIN trace :
           (trace[i].op \in {"wait_for_selector", "wait_for_load_state"} /\ ~trace[i].ok) =>
               \/ exc.line = trace[i].line
               \/ IF Len(trace) > i THEN trace[i+1].op = "print" ELSE Cur.op = "print"
    /\ script \in {"verify_layout", "verify_snap", "verify_status_bar",
                   "verify_unit_input", "verify_y_flip", "verify_viz_mode"} =>
           \A i \in Failed(C10_Caught(script)[1]) :
               /\ exc.line # trace[i].line
               /\ Len(trace) = i => (outcome = "running" /\ Cur.line = C10_Caught(script)[2])
               /\ Len(trace) > i =>
                      (trace[i+1].op = "print" /\ trace[i+1].line = C10_Caught(script)[2])
               /\ Len(trace) = i + 1 => (outcome = "running" /\ Cur.line = C10_Caught(script)[3])
               /\ Len(trace) > i + 1 => trace[i+2].line = C10_Caught(script)[3]
    /\ script \in {"verify_resizable", "verify_stl_conversion"} =>
           \A i \in Failed(C10_Uncaught(script)) :
               /\ i = Len(trace)
               /\ outcome = "aborted"
               /\ exc.line = trace[i].line

C10_Witness ==
    /\ script = "verify_snap" /\ Failed(15) # {}
    /\ Done(18) # {} /\ Done(24) # {}
    /\ outcome = "completed"

\* The verdicts printed for the upward and for the downward move.
C12_UpVerdicts == Done(44) \cup Done(46)

C12_DownVerdicts == Done(56) \cup Done(58)

\* C12: in verify_y_flip every completed run prints exactly one verdict for the
\* upward move and exactly one for the downward move, both against the centre
\* reading y0: SUCCESS for up iff y_up > y0 and SUCCESS for down iff
\* y_down < y0, equality yielding FAILURE; and if the 'Mouse:' status text is
\* missing or unparseable at any of the three readings, the run aborts with no
\* verdict for that reading and without closing the browser.
C12_Verdicts ==
    script = "verify_y_flip" =>
        /\ \A i \in Done(44) : trace[i].target = "SUCCESS: Y increased when moving UP."
        /\ \A i \in Done(46) : trace[i].target = "FAILURE: Y did not increase when moving UP."
        /\ \A i \in Done(56) : trace[i].target = "SUCCESS: Y decreased when moving DOWN."
        /\ \A i \in Done(58) : trace[i].target = "FAILURE: Y did not decrease when moving DOWN."
        /\ Done(44) # {} => locals["y_up"] > locals["y0"]
        /\ Done(46) # {} => locals["y_up"] <= locals["y0"]
        /\ Done(56) # {} => locals["y_down"] < locals["y0"]
        /\ Done(58) # {} => locals["y_down"] >= locals["y0"]
        /\ outcome = "completed" =>
               /\ Cardinality(C12_UpVerdicts) = 1
               /\ Cardinality(C12_DownVerdicts) = 1
               /\ DOMAIN locals = {"y0", "y_up", "y_down"}
        /\ Failed(33) # {} => (C12_UpVerdicts = {} /\ C12_DownVerdicts = {})
        /\ Failed(40) # {} => (C12_UpVerdicts = {} /\ C12_DownVerdicts = {})
        /\ Failed(52) # {} => C12_DownVerdicts = {}
        /\ \A l \in {33, 40, 52} : \A i \in Failed(l) :
               /\ outcome = "aborted"
               /\ exc.line = l
               /\ i = Len(trace)
               /\ browser = "open"

\* Equality at the upward move: FAILURE is printed; the downward move succeeds.
C12_Witness ==
    /\ script = "verify_y_flip" /\ outcome = "completed"
    /\ locals["y_up"] = locals["y0"] /\ Done(46) # {}
    /\ locals["y_down"] < locals["y0"] /\ Done(56) # {}

\* The clicks made on the control labelled l.
C11_Clicks(l) == {i \in DOMAIN trace : trace[i].op = "click" /\ trace[i].target = l /\ trace[i].ok}

\* At the screenshot the unit and the Grid Size value are those the run first
\* read: nothing changes the page between the last click and the screenshot.
C11_Restored ==
    \A j \in Done(73) :
        /\ page.unit = page0.unit
        /\ Shown(page) = Shown(page0)
        /\ \A i \in Done(23) : trace[i].got.value = Shown(page)
        /\ \A i \in Done(33) : trace[i].got.unit = page.unit

\* C11 as claimed: every completed run of verify_unit_input clicks the unit
\* button exactly three times and Increase then Decrease exactly once each, so
\* the unit and the Grid Size value at the screenshot equal those read at the start.
C11_AlwaysThreeClicks ==
    (script = "verify_unit_input" /\ outcome = "completed") =>
        /\ Cardinality(C11_Clicks("label 'Change unit'")) = 3
        /\ Cardinality(C11_Clicks("label 'Increase value'")) = 1
        /\ Cardinality(C11_Clicks("label 'Decrease value'")) = 1
        /\ \A i \in C11_Clicks("label 'Increase value'") :
               \A j \in C11_Clicks("label 'Decrease value'") : i < j
        /\ C11_Restored

\* C11: given a unit button that cycles U -> u -> mm -> U and Increase/Decrease
\* buttons that are inverse steps, every completed run of verify_unit_input
\* clicks the unit button exactly three times when it is visible and not at all
\* otherwise, and Increase then Decrease exactly once each when the Increase
\* button is visible and not at all otherwise, so the unit and the Grid Size
\* value at the moment of the screenshot equal those read at the start of the run.
C11_ThreeClicksOrNone ==
    (script = "verify_unit_input" /\ outcome = "completed") =>
        /\ Cardinality(C11_Clicks("label 'Change unit'")) = (IF Done(33) # {} THEN 3 ELSE 0)
        /\ Done(33) # {} <=> Done(50) = {}
        /\ Cardinality(C11_Clicks("label 'Increase value'")) = (IF Done(69) = {} THEN 1 ELSE 0)
        /\ Cardinality(C11_Clicks("label 'Decrease value'")) = (IF Done(69) = {} THEN 1 ELSE 0)
        /\ \A i \in C11_Clicks("label 'Increase value'") :
               \A j \in C11_Clicks("label 'Decrease value'") : i < j
        /\ Done(73) # {}
        /\ page # Unknown
        /\ C11_Restored

\* A run that found both the unit button and the arrows.
C11_Witness ==
    /\ script = "verify_unit_input" /\ outcome = "completed"
    /\ Cardinality(C11_Clicks("label 'Change unit'")) = 3
    /\ Cardinality(C11_Clicks("label 'Decrease value'")) = 1
    /\ page0.unit = "mm" /\ page = page0
    /\ \E i \in Done(59) : trace[i].got.value > Shown(page)

====
